---- MODULE Spec2Model ----
(***************************************************************************)
(* A model of mdigger/sqlog: the logging proxies around database/sql       *)
(* driver objects (Driver, Connector, Conn, Stmt, Tx) and the event        *)
(* logger they share.                                                      *)
(*                                                                         *)
(* Time is a logical clock: 0 is the zero time.Time, the clock starts at 1 *)
(* and every forwarded call takes one tick.  A nil error is "nil".         *)
(***************************************************************************)
EXTENDS Integers, Sequences, FiniteSets, TLC

VARIABLES
    cfg,      \* the internal.Logger built by newDefaultLogger(opt...)
    real,     \* the wrapped real driver: which optional interfaces its objects implement
    conns,    \* the Conn proxies, in creation order
    stmts,    \* the Stmt proxies, in creation order
    txs,      \* the Tx proxies, in creation order
    rstmts,   \* the real statements the real connection has prepared
    rtxs,     \* the real transactions the real connection has begun
    last,     \* the call that returned last: inputs, real calls made, result, events emitted
    now,      \* the clock
    pc,       \* "idle", "returned" while the caller holds the result of a call, "panicked"
    scen,     \* how many steps of the connect/prepare/exec/close/close scenario the run matches
    scenLog   \* the events the sink received while the run followed that scenario

vars == <<cfg, real, conns, stmts, txs, rstmts, rtxs, last, now, pc, scen, scenLog>>

----------------------------------------------------------------------------
(* Bounds *)

MaxClock == 4
MaxConns == 1
MaxStmts == 1
MaxTxs == 1

----------------------------------------------------------------------------
(* slog levels and driver errors *)

LevelDebug == -4
LevelInfo == 0
LevelWarn == 4
LevelError == 8

Levels == {LevelDebug, LevelInfo, LevelWarn, LevelError}

\* the offsets WithBaseLevel is given
BaseLevels == {LevelDebug, LevelInfo, LevelWarn, LevelError}

\* the offset the proxies are run with in Spec: the default, none
RunBaseLevels == {LevelInfo}

ErrSkip == "driver.ErrSkip"
ErrReal == "real driver error"
ErrCanceled == "context canceled"
ErrIsolation == "sql: driver does not support non-default isolation level"
ErrReadOnly == "sql: driver does not support read-only transactions"
ErrNamed == "sql: driver does not support the use of Named Parameters"

\* what a real driver call returns: a value with a nil error, or an error
RealOutcomes ==
    { [val |-> "realValue", err |-> "nil"],
      [val |-> "none", err |-> ErrReal],
      [val |-> "none", err |-> ErrSkip] }

Succeeded == [val |-> "realValue", err |-> "nil"]

\* contexts: context.Background() (Done() is nil), a live one, a canceled one
Contexts == {"background", "live", "canceled"}

CtxHasDone(ctx) == ctx # "background"
CtxDone(ctx) == ctx = "canceled"
CtxErr(ctx) == IF ctx = "canceled" THEN ErrCanceled ELSE "nil"

\* what NewUID may return
UIDs == {"uid1", "uid2"}

Queries == {"SELECT 1", "UPDATE t"}

\* []driver.Value
ValueArgs == {<<>>, <<"v">>}

\* []driver.NamedValue
NamedArgs ==
    { <<[Name |-> "", Value |-> "v"]>>,
      <<[Name |-> "", Value |-> "v"], [Name |-> "n", Value |-> "w"]>> }

IsolationLevels == {0, 1}

TxOptions == [Isolation : IsolationLevels, ReadOnly : BOOLEAN]

----------------------------------------------------------------------------
(* internal.Logger *)

\* errors.Is(err, driver.ErrSkip)
IsErrSkip(err) == err = ErrSkip

\* the options of the configuration surface, as applied by newDefaultLogger
Options(levels) ==
    [ logger : {"default", "nil"},
      baseLevel : levels,
      withoutDuration : BOOLEAN,
      warnErrSkip : BOOLEAN ]

newDefaultLogger(opt) ==
    [ sink |-> opt.logger # "nil",
      BaseLevel |-> opt.baseLevel,
      BasePrefix |-> "sqlite:",
      StmtPrefix |-> "stmt:",
      TxPrefix |-> "tx:",
      WithDuration |-> ~opt.withoutDuration,
      WarnErrSkip |-> opt.warnErrSkip,
      attrs |-> <<>> ]

\* the attribute appended for the elapsed time, when there is one
DurationAttrs(l, started, t) ==
    IF l.WithDuration /\ started # 0
    THEN << <<"duration", t - started>> >>
    ELSE <<>>

\* a level that would shift every event by the base offset, errors included
EventLevelOffset(l, level, err) ==
    IF err = "nil" THEN l.BaseLevel + level
    ELSE IF IsErrSkip(err) THEN l.BaseLevel + LevelWarn
    ELSE l.BaseLevel + LevelError

\* the level of the event, from the caller's level and the error
EventLevel(l, level, err) ==
    IF err = "nil" THEN l.BaseLevel + level
    ELSE IF IsErrSkip(err) THEN LevelWarn
    ELSE LevelError

\* a Log that would drop every error while ErrSkip is not surfaced
SuppressedOnAnyError(l, err) ==
    \/ ~l.sink
    \/ err # "nil" /\ ~l.WarnErrSkip

\* whether Log returns before calling the sink
Suppressed(l, err) ==
    \/ ~l.sink
    \/ err # "nil" /\ IsErrSkip(err) /\ ~l.WarnErrSkip

\* Logger.Log at time t: the events the sink receives (none or one)
Log(l, ctx, level, msg, started, err, attrs, t) ==
    IF Suppressed(l, err) THEN <<>>
    ELSE << [ level |-> EventLevel(l, level, err),
              msg |-> l.BasePrefix \o msg,
              ctx |-> ctx,
              scope |-> l.attrs,
              attrs |-> attrs \o DurationAttrs(l, started, t)
                          \o (IF err = "nil" THEN <<>> ELSE << <<"error", err>> >>) ] >>

\* a With that would start the child's attributes afresh
WithOnly(l, attr) == [l EXCEPT !.attrs = <<attr>>]

\* Logger.With: a copy of l whose slog.Logger carries one more attribute
With(l, attr) == [l EXCEPT !.attrs = Append(@, attr)]

\* l.Logger.With dereferences the *slog.Logger
WithPanics(l) == ~l.sink

HasAttr(as, k) == \E i \in DOMAIN as : as[i][1] = k
AttrVal(as, k) == as[CHOOSE i \in DOMAIN as : as[i][1] = k][2]
AttrCount(as, k) == Cardinality({i \in DOMAIN as : as[i][1] = k})

logQuery(query) == <<"query", query>>

\* logArgs of a []driver.Value: the values themselves
logArgs(args) == <<"args", args>>

\* logArgs of a []driver.NamedValue: the plain value of each argument
logNamedArgs(args) == <<"args", [n \in DOMAIN args |-> args[n].Value]>>

----------------------------------------------------------------------------
(* The real driver and its objects *)

ConnCaps ==
    { "Pinger", "Execer", "ExecerContext", "Queryer", "QueryerContext",
      "ConnPrepareContext", "ConnBeginTx", "SessionResetter", "NamedValueChecker" }

StmtCaps == {"StmtExecContext", "StmtQueryContext", "NamedValueChecker"}

DriverCaps == {"DriverContext"}

MixedConnCaps == {"Pinger", "ExecerContext", "Queryer", "ConnBeginTx", "NamedValueChecker"}

\* every real driver: any subset of the optional interfaces at each level
AllRealDrivers ==
    [drvCaps : SUBSET DriverCaps, connCaps : SUBSET ConnCaps, stmtCaps : SUBSET StmtCaps]

\* the real drivers the proxies are run against: one that implements no optional
\* interface, one that implements them all, one that implements some
RealDrivers ==
    { [drvCaps |-> {}, connCaps |-> {}, stmtCaps |-> {}],
      [drvCaps |-> DriverCaps, connCaps |-> ConnCaps, stmtCaps |-> StmtCaps],
      [drvCaps |-> {}, connCaps |-> MixedConnCaps, stmtCaps |-> {"StmtExecContext"}] }

\* the real drivers the capability probes are run against: every subset, one level
\* at a time
ProbedDrivers ==
    {[drvCaps |-> d, connCaps |-> ConnCaps, stmtCaps |-> StmtCaps] : d \in SUBSET DriverCaps}
        \cup {[drvCaps |-> {}, connCaps |-> c, stmtCaps |-> {}] : c \in SUBSET ConnCaps}
        \cup {[drvCaps |-> {}, connCaps |-> {}, stmtCaps |-> t] : t \in SUBSET StmtCaps}

----------------------------------------------------------------------------
(* The record of a call *)

NoCall ==
    [ op |-> "none", obj |-> 0, in |-> <<>>, entered |-> 0, returned |-> 0,
      result |-> "none", val |-> "none", err |-> "nil", trace |-> <<>>, made |-> 0 ]

\* a call of the real driver and what it returned
RealCall(name, args, out) == [kind |-> "real", name |-> name, args |-> args, out |-> out]

\* a handler that would log before it calls the real driver
TraceLogFirst(rcalls, events) == [i \in DOMAIN events |-> [kind |-> "event", ev |-> events[i]]] \o rcalls

\* the order of what a handler does: its calls of the real driver in its body,
\* then the event of its deferred Log
Trace(rcalls, events) == rcalls \o [i \in DOMAIN events |-> [kind |-> "event", ev |-> events[i]]]

\* a call that returned val, err
Ret(op, obj, in, rcalls, val, err, events, made) ==
    [ op |-> op, obj |-> obj, in |-> in, entered |-> now, returned |-> now + 1,
      result |-> "returned", val |-> val, err |-> err,
      trace |-> Trace(rcalls, events), made |-> made ]

\* a call that panicked (a method called on a nil interface, a nil *slog.Logger)
Panicked(op, obj, in, rcalls, events) ==
    [ op |-> op, obj |-> obj, in |-> in, entered |-> now, returned |-> now + 1,
      result |-> "panic", val |-> "none", err |-> "nil",
      trace |-> Trace(rcalls, events), made |-> 0 ]

IsReal(e) == e.kind = "real"
IsEvent(e) == e.kind = "event"

\* the real calls a call made, and the events it emitted, in order
RealCalls(l) == SelectSeq(l.trace, IsReal)
Events(l) == [i \in DOMAIN SelectSeq(l.trace, IsEvent) |-> SelectSeq(l.trace, IsEvent)[i].ev]

\* what a real call that returns only an error returns
ErrOnly(out) == [val |-> "none", err |-> out.err]

\* the scenario: Connect, Prepare("SELECT 1"), Stmt.Exec(no arguments), Stmt.Close,
\* Conn.Close, every real call succeeding
ScenStep(n, l) ==
    LET good == l.result = "returned" /\ l.err = "nil" IN
    IF n = 0 /\ l.op = "Connector.Connect" /\ good THEN 1
    ELSE IF n = 1 /\ l.op = "Conn.Prepare" /\ good /\ l.in.query = "SELECT 1" THEN 2
    ELSE IF n = 2 /\ l.op = "Stmt.Exec" /\ good /\ l.in.args = <<>> THEN 3
    ELSE IF n = 3 /\ l.op = "Stmt.Close" /\ good THEN 4
    ELSE IF n = 4 /\ l.op = "Conn.Close" /\ good THEN 5
    ELSE -1

\* the call l has ended: the clock has advanced, a panic ends the run.  Runs are
\* cut at MaxClock; only the run that follows the scenario is followed further
Done(l) ==
    /\ now < MaxClock \/ ScenStep(scen, l) # -1
    /\ last' = l
    /\ now' = l.returned
    /\ pc' = IF l.result = "panic" THEN "panicked" ELSE "returned"
    /\ scen' = ScenStep(scen, l)
    /\ scenLog' = IF ScenStep(scen, l) = -1 THEN <<>> ELSE scenLog \o l.trace

\* a call may start when the caller holds no result
CanCall == pc = "idle"

----------------------------------------------------------------------------
(* Construction *)

\* no proxy has been made yet, no call has been made
Fresh ==
    /\ conns = <<>>
    /\ stmts = <<>>
    /\ txs = <<>>
    /\ rstmts = <<>>
    /\ rtxs = <<>>
    /\ last = NoCall
    /\ now = 1
    /\ pc = "idle"
    /\ scen = 0
    /\ scenLog = <<>>

\* after Open(driverName, dsn, opt...): a Connector with its Logger
Init ==
    /\ cfg \in {newDefaultLogger(opt) : opt \in Options(RunBaseLevels)}
    /\ real \in RealDrivers
    /\ Fresh

\* a Conn that would implement the context-aware interfaces only
ConnIfacesContextOnly == {"ExecerContext", "QueryerContext", "ConnPrepareContext", "ConnBeginTx"}

\* the optional interfaces *Conn is asserted to implement
ConnIfaces ==
    { "Pinger", "Execer", "ExecerContext", "Queryer", "QueryerContext",
      "ConnPrepareContext", "ConnBeginTx", "SessionResetter", "NamedValueChecker" }

\* the optional interfaces *Stmt is asserted to implement
StmtIfaces == {"StmtExecContext", "StmtQueryContext", "NamedValueChecker"}

\* NewConn: the proxy of a real connection, created at time t
NewConn(logger, t) ==
    [ conn |-> [caps |-> real.connCaps, closed |-> FALSE], started |-> t,
      logger |-> logger, ifaces |-> ConnIfaces ]

\* NewStmt: the proxy of real statement r
NewStmt(r, query, logger, c) ==
    [stmt |-> r, query |-> query, logger |-> logger, conn |-> c, ifaces |-> StmtIfaces]

\* NewTx: the proxy of real transaction r, created at time t
NewTx(r, logger, t, c) ==
    [tx |-> r, started |-> t, logger |-> logger, conn |-> c]

----------------------------------------------------------------------------
(* Connector and Driver *)

\* Connector.Connect
Connect(ctx, id, out) ==
    LET connID == <<"connID", id>>
        rc == <<RealCall("Driver.Open", <<"dsn">>, out)>>
        ev(err) == Log(cfg, ctx, LevelInfo, "connect", now, err, <<connID>>, now + 1)
    IN
    /\ Len(conns) < MaxConns
    /\ IF out.err # "nil"
       THEN /\ Done(Ret("Connector.Connect", 0, [ctx |-> ctx], rc, "none", out.err,
                        ev(out.err), 0))
            /\ UNCHANGED conns
       ELSE IF WithPanics(cfg)
       THEN /\ Done(Panicked("Connector.Connect", 0, [ctx |-> ctx], rc, ev("nil")))
            /\ UNCHANGED conns
       ELSE /\ conns' = Append(conns, NewConn(With(cfg, connID), now + 1))
            /\ Done(Ret("Connector.Connect", 0, [ctx |-> ctx], rc, "proxy", "nil",
                        ev("nil"), Len(conns) + 1))
    /\ UNCHANGED <<cfg, real, stmts, txs, rstmts, rtxs>>

\* Driver.Open
DriverOpen(id, out) ==
    LET connID == <<"connID", id>>
        rc == <<RealCall("Driver.Open", <<"dsn">>, out)>>
    IN
    /\ Len(conns) < MaxConns
    /\ IF out.err # "nil"
       THEN /\ Done(Ret("Driver.Open", 0, <<>>, rc, "none", out.err, <<>>, 0))
            /\ UNCHANGED conns
       ELSE IF WithPanics(cfg)
       THEN /\ Done(Panicked("Driver.Open", 0, <<>>, rc, <<>>))
            /\ UNCHANGED conns
       ELSE /\ conns' = Append(conns, NewConn(With(cfg, connID), now + 1))
            /\ Done(Ret("Driver.Open", 0, <<>>, rc, "proxy", "nil", <<>>, Len(conns) + 1))
    /\ UNCHANGED <<cfg, real, stmts, txs, rstmts, rtxs>>

\* a NewDriver that would return *Driver whatever the real driver is
NewDriverAlways(d) == [ifaces |-> {"DriverContext"}]

\* NewDriver: the optional interfaces of the value it returns, *Driver itself when
\* the real driver is a DriverContext, else a struct that embeds only driver.Driver
NewDriver(d) ==
    [ifaces |-> IF "DriverContext" \in d.drvCaps THEN {"DriverContext"} ELSE {}]

\* a call of NewDriver
NewDriverCall ==
    /\ Done(Ret("NewDriver", 0, <<>>, <<>>, NewDriver(real), "nil", <<>>, 0))
    /\ UNCHANGED <<cfg, real, conns, stmts, txs, rstmts, rtxs>>

\* Driver.OpenConnector, called by the holder of a value of NewDriver that
\* satisfies the probe for DriverContext: the real driver is asserted to be one
OpenConnector(name, out) ==
    /\ pc = "returned"
    /\ last.op = "NewDriver"
    /\ "DriverContext" \in last.val.ifaces
    /\ IF "DriverContext" \in real.drvCaps
       THEN Done(Ret("Driver.OpenConnector", 0, [name |-> name],
                     <<RealCall("DriverContext", <<name>>, out)>>, out.val, out.err,
                     <<>>, 0))
       ELSE Done(Panicked("Driver.OpenConnector", 0, [name |-> name], <<>>, <<>>))
    /\ UNCHANGED <<cfg, real, conns, stmts, txs, rstmts, rtxs>>

\* a direct call of Logger.Log on the Connector's logger
LogCall(ctx, level, started, err) ==
    /\ Done(Ret("Logger.Log", 0, [ctx |-> ctx, level |-> level, started |-> started,
                                  err |-> err],
                <<>>, "none", "nil",
                Log(cfg, ctx, level, "msg", started, err, <<>>, now + 1), 0))
    /\ UNCHANGED <<cfg, real, conns, stmts, txs, rstmts, rtxs>>

----------------------------------------------------------------------------
(* Conn *)

IsConn(c) == c \in DOMAIN conns /\ ~conns[c].conn.closed

\* the type assertion and the call that follows it: with `enters` the branch is
\* taken and the asserted interface is called, a nil interface when the real
\* object does not implement it
Forward(enters, implements) ==
    IF ~enters THEN "skip"
    ELSE IF implements THEN "real"
    ELSE "panic"

\* the branch conditions of the five optional operations, as written
PingEnters(caps) == "Pinger" \notin caps
ExecEnters(caps) == "Execer" \notin caps
ExecContextEnters(caps) == "ExecerContext" \notin caps
QueryEnters(caps) == "Queryer" \in caps
QueryContextEnters(caps) == "QueryerContext" \in caps

\* one optional operation of the Conn proxy: op, its interface, its branch condition,
\* the value returned when the branch is not taken, and what its deferred Log, if
\* it has one, is given
Optional(c, op, iface, enters, in, rargs, skipErr, lg, out) ==
    LET how == Forward(enters, iface \in conns[c].conn.caps)
        rc == <<RealCall(iface, rargs, out)>>
        ev(err) == IF lg.logged
                   THEN Log(conns[c].logger, lg.ctx, lg.level, lg.msg, lg.started, err,
                            lg.attrs, now + 1)
                   ELSE <<>>
    IN
    /\ IsConn(c)
    /\ CASE how = "real" -> Done(Ret(op, c, in, rc, out.val, out.err, ev(out.err), 0))
         [] how = "panic" -> Done(Panicked(op, c, in, <<>>, ev("nil")))
         [] how = "skip" -> Done(Ret(op, c, in, <<>>, "none", skipErr, ev(skipErr), 0))
    /\ UNCHANGED <<cfg, real, conns, stmts, txs, rstmts, rtxs>>

\* Conn.Ping
Ping(c, ctx, out) ==
    Optional(c, "Conn.Ping", "Pinger", PingEnters(conns[c].conn.caps),
             [ctx |-> ctx], <<ctx>>, "nil",
             [logged |-> TRUE, ctx |-> ctx, level |-> LevelDebug, msg |-> "ping",
              started |-> now, attrs |-> <<>>], out)

\* Conn.Exec
Exec(c, query, args, out) ==
    Optional(c, "Conn.Exec", "Execer", ExecEnters(conns[c].conn.caps),
             [query |-> query, args |-> args], <<query, args>>, ErrSkip,
             [logged |-> TRUE, ctx |-> "background", level |-> LevelInfo, msg |-> "exec",
              started |-> now, attrs |-> <<logQuery(query), logArgs(args)>>], out)

\* Conn.ExecContext
ExecContext(c, ctx, query, args, out) ==
    Optional(c, "Conn.ExecContext", "ExecerContext", ExecContextEnters(conns[c].conn.caps),
             [ctx |-> ctx, query |-> query, args |-> args], <<ctx, query, args>>, ErrSkip,
             [logged |-> TRUE, ctx |-> ctx, level |-> LevelInfo, msg |-> "execContext",
              started |-> now, attrs |-> <<logQuery(query), logNamedArgs(args)>>], out)

\* Conn.Query
Query(c, query, args, out) ==
    Optional(c, "Conn.Query", "Queryer", QueryEnters(conns[c].conn.caps),
             [query |-> query, args |-> args], <<query, args>>, ErrSkip,
             [logged |-> TRUE, ctx |-> "background", level |-> LevelInfo, msg |-> "query",
              started |-> now, attrs |-> <<logQuery(query), logArgs(args)>>], out)

\* Conn.QueryContext
QueryContext(c, ctx, query, args, out) ==
    Optional(c, "Conn.QueryContext", "QueryerContext", QueryContextEnters(conns[c].conn.caps),
             [ctx |-> ctx, query |-> query, args |-> args], <<ctx, query, args>>, ErrSkip,
             [logged |-> TRUE, ctx |-> ctx, level |-> LevelInfo, msg |-> "queryContext",
              started |-> now, attrs |-> <<logQuery(query), logNamedArgs(args)>>], out)

\* Conn.ResetSession: the deferred Log is given the zero time
ResetSession(c, ctx, out) ==
    Optional(c, "Conn.ResetSession", "SessionResetter",
             "SessionResetter" \in conns[c].conn.caps, [ctx |-> ctx], <<ctx>>, "nil",
             [logged |-> TRUE, ctx |-> ctx, level |-> LevelDebug, msg |-> "resetSession",
              started |-> 0, attrs |-> <<>>], out)

\* Conn.CheckNamedValue: no event
ConnCheckNamedValue(c, out) ==
    Optional(c, "Conn.CheckNamedValue", "NamedValueChecker",
             "NamedValueChecker" \in conns[c].conn.caps, <<>>, <<"namedValue">>, ErrSkip,
             [logged |-> FALSE], out)

\* Conn.Close: the duration runs from the creation of the proxy
ConnClose(c, out) ==
    LET ev == Log(conns[c].logger, "background", LevelInfo, "close", conns[c].started,
                  out.err, <<>>, now + 1)
    IN
    /\ IsConn(c)
    /\ conns' = [conns EXCEPT ![c].conn.closed = TRUE]
    /\ Done(Ret("Conn.Close", c, <<>>, <<RealCall("Conn.Close", <<>>, ErrOnly(out))>>,
                "none", out.err, ev, 0))
    /\ UNCHANGED <<cfg, real, stmts, txs, rstmts, rtxs>>

----------------------------------------------------------------------------
(* Conn: statements and transactions *)

\* c.newStmt on a real statement just prepared, or the panic of Logger.With
MakeStmt(c, op, in, rc, query, stmtID, ev) ==
    IF WithPanics(conns[c].logger)
    THEN /\ rstmts' = Append(rstmts, [closed |-> FALSE, owner |-> 0])
         /\ UNCHANGED stmts
         /\ Done(Panicked(op, c, in, rc, ev))
    ELSE /\ rstmts' = Append(rstmts, [closed |-> FALSE, owner |-> Len(stmts) + 1])
         /\ stmts' = Append(stmts, NewStmt(Len(rstmts) + 1, query,
                                           With(conns[c].logger, stmtID), c))
         /\ Done(Ret(op, c, in, rc, "proxy", "nil", ev, Len(stmts) + 1))

\* Conn.Prepare
Prepare(c, query, id, out) ==
    LET stmtID == <<"stmtID", id>>
        in == [query |-> query]
        rc == <<RealCall("Conn.Prepare", <<query>>, out)>>
        ev(err) == Log(conns[c].logger, "background", LevelInfo, "prepare", now, err,
                       <<stmtID, logQuery(query)>>, now + 1)
    IN
    /\ IsConn(c)
    /\ Len(stmts) < MaxStmts
    /\ IF out.err # "nil"
       THEN /\ Done(Ret("Conn.Prepare", c, in, rc, "none", out.err, ev(out.err), 0))
            /\ UNCHANGED <<stmts, rstmts>>
       ELSE MakeStmt(c, "Conn.Prepare", in, rc, query, stmtID, ev("nil"))
    /\ UNCHANGED <<cfg, real, conns, txs, rtxs>>

\* the result of a real call whose result the code drops
Discarded == [val |-> "none", err |-> "discarded"]

\* a fallback that would return on a canceled context without closing the statement
CanceledStmtLeftOpen == [closed |-> FALSE, owner |-> 0, calls |-> <<>>]

\* the fallback of PrepareContext on a canceled context: the real statement just
\* prepared is closed and belongs to no proxy
CanceledStmt ==
    [closed |-> TRUE, owner |-> 0, calls |-> <<RealCall("Stmt.Close", <<>>, Discarded)>>]

\* Conn.PrepareContext
PrepareContext(c, ctx, query, id, out) ==
    LET stmtID == <<"stmtID", id>>
        op == "Conn.PrepareContext"
        in == [ctx |-> ctx, query |-> query]
        ev(err) == Log(conns[c].logger, ctx, LevelInfo, "prepareContext", now, err,
                       <<stmtID, logQuery(query)>>, now + 1)
        rcCtx == <<RealCall("ConnPrepareContext", <<ctx, query>>, out)>>
        rcPlain == <<RealCall("Conn.Prepare", <<query>>, out)>>
    IN
    /\ IsConn(c)
    /\ Len(stmts) < MaxStmts
    /\ IF "ConnPrepareContext" \in conns[c].conn.caps
       THEN IF out.err # "nil"
            THEN /\ Done(Ret(op, c, in, rcCtx, "none", out.err, ev(out.err), 0))
                 /\ UNCHANGED <<stmts, rstmts>>
            ELSE MakeStmt(c, op, in, rcCtx, query, stmtID, ev("nil"))
       ELSE IF out.err # "nil"
            THEN /\ Done(Ret(op, c, in, rcPlain, "none", out.err, ev(out.err), 0))
                 /\ UNCHANGED <<stmts, rstmts>>
            ELSE IF CtxDone(ctx)
            THEN /\ rstmts' = Append(rstmts, [closed |-> CanceledStmt.closed,
                                               owner |-> CanceledStmt.owner])
                 /\ UNCHANGED stmts
                 /\ Done(Ret(op, c, in, rcPlain \o CanceledStmt.calls,
                             "none", CtxErr(ctx), ev(CtxErr(ctx)), 0))
            ELSE MakeStmt(c, op, in, rcPlain, query, stmtID, ev("nil"))
    /\ UNCHANGED <<cfg, real, conns, txs, rtxs>>

\* c.newTx on a real transaction just begun, or the panic of Logger.With
MakeTx(c, op, in, rc, txID, ev) ==
    IF WithPanics(conns[c].logger)
    THEN /\ rtxs' = Append(rtxs, [state |-> "open", owner |-> 0])
         /\ UNCHANGED txs
         /\ Done(Panicked(op, c, in, rc, ev))
    ELSE /\ rtxs' = Append(rtxs, [state |-> "open", owner |-> Len(txs) + 1])
         /\ txs' = Append(txs, NewTx(Len(rtxs) + 1, With(conns[c].logger, txID),
                                     now + 1, c))
         /\ Done(Ret(op, c, in, rc, "proxy", "nil", ev, Len(txs) + 1))

\* Conn.Begin: the deferred Log is given the zero time
Begin(c, id, out) ==
    LET txID == <<"txID", id>>
        rc == <<RealCall("Conn.Begin", <<>>, out)>>
        ev(err) == Log(conns[c].logger, "background", LevelInfo, "begin", 0, err,
                       <<txID>>, now + 1)
    IN
    /\ IsConn(c)
    /\ Len(txs) < MaxTxs
    /\ IF out.err # "nil"
       THEN /\ Done(Ret("Conn.Begin", c, <<>>, rc, "none", out.err, ev(out.err), 0))
            /\ UNCHANGED <<txs, rtxs>>
       ELSE MakeTx(c, "Conn.Begin", <<>>, rc, txID, ev("nil"))
    /\ UNCHANGED <<cfg, real, conns, stmts, rstmts>>

\* the option the fallback of BeginTx refuses, "nil" when it refuses none
BeginTxRefuses(opts) ==
    IF opts.Isolation # 0 THEN ErrIsolation
    ELSE IF opts.ReadOnly THEN ErrReadOnly
    ELSE "nil"

\* whether the fallback of BeginTx finds the context canceled after Begin
BeginTxCanceled(ctx) == CtxHasDone(ctx) /\ CtxDone(ctx)

\* a fallback that would return on a canceled context without rolling back
CanceledTxLeftOpen == [state |-> "open", owner |-> 0, calls |-> <<>>]

\* the fallback of BeginTx on a canceled context: the real transaction just begun
\* is rolled back and belongs to no proxy
CanceledTx ==
    [ state |-> "rolledback", owner |-> 0,
      calls |-> <<RealCall("Tx.Rollback", <<>>, Discarded)>> ]

\* Conn.BeginTx: the deferred Log is given the zero time
BeginTx(c, ctx, opts, id, out) ==
    LET txID == <<"txID", id>>
        op == "Conn.BeginTx"
        in == [ctx |-> ctx, opts |-> opts]
        ev(err) == Log(conns[c].logger, ctx, LevelInfo, "beginTx", 0, err,
                       <<txID, <<"readOnly", opts.ReadOnly>> >>, now + 1)
        rcCtx == <<RealCall("ConnBeginTx", <<ctx, opts>>, out)>>
        rcPlain == <<RealCall("Conn.Begin", <<>>, out)>>
    IN
    /\ IsConn(c)
    /\ Len(txs) < MaxTxs
    /\ IF "ConnBeginTx" \in conns[c].conn.caps
       THEN IF out.err # "nil"
            THEN /\ Done(Ret(op, c, in, rcCtx, "none", out.err, ev(out.err), 0))
                 /\ UNCHANGED <<txs, rtxs>>
            ELSE MakeTx(c, op, in, rcCtx, txID, ev("nil"))
       ELSE IF BeginTxRefuses(opts) # "nil"
            THEN /\ Done(Ret(op, c, in, <<>>, "none", BeginTxRefuses(opts),
                             ev(BeginTxRefuses(opts)), 0))
                 /\ UNCHANGED <<txs, rtxs>>
            ELSE IF out.err # "nil"
            THEN /\ Done(Ret(op, c, in, rcPlain, "none", out.err, ev(out.err), 0))
                 /\ UNCHANGED <<txs, rtxs>>
            ELSE IF BeginTxCanceled(ctx)
            THEN /\ rtxs' = Append(rtxs, [state |-> CanceledTx.state,
                                             owner |-> CanceledTx.owner])
                 /\ UNCHANGED txs
                 /\ Done(Ret(op, c, in, rcPlain \o CanceledTx.calls,
                             "none", CtxErr(ctx), ev(CtxErr(ctx)), 0))
            ELSE MakeTx(c, op, in, rcPlain, txID, ev("nil"))
    /\ UNCHANGED <<cfg, real, conns, stmts, rstmts>>

----------------------------------------------------------------------------
(* Stmt *)

IsStmt(s) == s \in DOMAIN stmts /\ ~rstmts[stmts[s].stmt].closed

StmtHas(s, iface) == iface \in real.stmtCaps

\* a conversion that would pass named parameters on as plain values
namedValueToValueUnchecked(named) ==
    [dargs |-> [n \in DOMAIN named |-> named[n].Value], err |-> "nil"]

\* namedValueToValue: the plain values, or the error of the first named parameter
namedValueToValue(named) ==
    IF \E n \in DOMAIN named : Len(named[n].Name) > 0
    THEN [dargs |-> <<>>, err |-> ErrNamed]
    ELSE [dargs |-> [n \in DOMAIN named |-> named[n].Value], err |-> "nil"]

\* the prefixed name of a statement event
StmtMsg(s, name) == stmts[s].logger.StmtPrefix \o name

\* Stmt.Close: the deferred Log is given the zero time
StmtClose(s, out) ==
    LET ev == Log(stmts[s].logger, "background", LevelInfo, StmtMsg(s, "close"), 0,
                  out.err, <<>>, now + 1)
    IN
    /\ IsStmt(s)
    /\ rstmts' = [rstmts EXCEPT ![stmts[s].stmt].closed = TRUE]
    /\ Done(Ret("Stmt.Close", s, <<>>, <<RealCall("Stmt.Close", <<>>, ErrOnly(out))>>,
                "none", out.err, ev, 0))
    /\ UNCHANGED <<cfg, real, conns, stmts, txs, rtxs>>

\* Stmt.NumInput: no event
StmtNumInput(s) ==
    /\ IsStmt(s)
    /\ Done(Ret("Stmt.NumInput", s, <<>>, <<RealCall("Stmt.NumInput", <<>>, Succeeded)>>,
                "realValue", "nil", <<>>, 0))
    /\ UNCHANGED <<cfg, real, conns, stmts, txs, rstmts, rtxs>>

\* Stmt.Exec and Stmt.Query: forwarded as they are
StmtPlain(s, op, name, args, out) ==
    LET ev == Log(stmts[s].logger, "background", LevelInfo, StmtMsg(s, name), now,
                  out.err, <<logArgs(args)>>, now + 1)
    IN
    /\ IsStmt(s)
    /\ Done(Ret(op, s, [args |-> args], <<RealCall(op, <<args>>, out)>>,
                out.val, out.err, ev, 0))
    /\ UNCHANGED <<cfg, real, conns, stmts, txs, rstmts, rtxs>>

StmtExec(s, args, out) == StmtPlain(s, "Stmt.Exec", "exec", args, out)

StmtQuery(s, args, out) == StmtPlain(s, "Stmt.Query", "query", args, out)

\* Stmt.ExecContext and Stmt.QueryContext: the context-aware call of the real
\* statement, or the fallback: convert the arguments, check the context, call plain
StmtContext(s, op, name, iface, plain, ctx, args, out) ==
    LET ev(err) == Log(stmts[s].logger, ctx, LevelInfo, StmtMsg(s, name), now, err,
                       <<logNamedArgs(args)>>, now + 1)
        in == [ctx |-> ctx, args |-> args]
        conv == namedValueToValue(args)
    IN
    /\ IsStmt(s)
    /\ IF StmtHas(s, iface)
       THEN Done(Ret(op, s, in, <<RealCall(iface, <<ctx, args>>, out)>>,
                     out.val, out.err, ev(out.err), 0))
       ELSE IF conv.err # "nil"
       THEN Done(Ret(op, s, in, <<>>, "none", conv.err, ev(conv.err), 0))
       ELSE IF CtxDone(ctx)
       THEN Done(Ret(op, s, in, <<>>, "none", CtxErr(ctx), ev(CtxErr(ctx)), 0))
       ELSE Done(Ret(op, s, in, <<RealCall(plain, <<conv.dargs>>, out)>>,
                     out.val, out.err, ev(out.err), 0))
    /\ UNCHANGED <<cfg, real, conns, stmts, txs, rstmts, rtxs>>

StmtExecContext(s, ctx, args, out) ==
    StmtContext(s, "Stmt.ExecContext", "execContext", "StmtExecContext", "Stmt.Exec",
                ctx, args, out)

StmtQueryContext(s, ctx, args, out) ==
    StmtContext(s, "Stmt.QueryContext", "queryContext", "StmtQueryContext", "Stmt.Query",
                ctx, args, out)

\* Stmt.CheckNamedValue: no event
StmtCheckNamedValue(s, out) ==
    /\ IsStmt(s)
    /\ IF StmtHas(s, "NamedValueChecker")
       THEN Done(Ret("Stmt.CheckNamedValue", s, <<>>,
                     <<RealCall("NamedValueChecker", <<"namedValue">>, ErrOnly(out))>>,
                     "none", out.err, <<>>, 0))
       ELSE Done(Ret("Stmt.CheckNamedValue", s, <<>>, <<>>, "none", ErrSkip, <<>>, 0))
    /\ UNCHANGED <<cfg, real, conns, stmts, txs, rstmts, rtxs>>

----------------------------------------------------------------------------
(* Tx *)

IsTx(t) == t \in DOMAIN txs /\ rtxs[txs[t].tx].state = "open"

\* Tx.Commit and Tx.Rollback: the duration runs from the creation of the proxy
TxEnd(t, op, name, state, out) ==
    LET ev == Log(txs[t].logger, "background", LevelInfo, txs[t].logger.TxPrefix \o name,
                  txs[t].started, out.err, <<>>, now + 1)
    IN
    /\ IsTx(t)
    /\ rtxs' = [rtxs EXCEPT ![txs[t].tx].state = state]
    /\ Done(Ret(op, t, <<>>, <<RealCall(op, <<>>, ErrOnly(out))>>, "none", out.err, ev, 0))
    /\ UNCHANGED <<cfg, real, conns, stmts, txs, rstmts>>

Commit(t, out) == TxEnd(t, "Tx.Commit", "commit", "committed", out)

Rollback(t, out) == TxEnd(t, "Tx.Rollback", "rollback", "rolledback", out)

----------------------------------------------------------------------------
(* The proxies in use *)

\* the caller has taken the result of the call and goes on
Resume ==
    /\ pc = "returned"
    /\ pc' = "idle"
    /\ last' = NoCall
    /\ UNCHANGED <<cfg, real, conns, stmts, txs, rstmts, rtxs, now, scen, scenLog>>

\* the calls a caller may make, and its taking of the result
Next ==
    \/ Resume
    \/ CanCall /\ \E ctx \in Contexts, id \in UIDs, out \in RealOutcomes :
                      Connect(ctx, id, out)
    \/ CanCall /\ \E id \in UIDs, out \in RealOutcomes : DriverOpen(id, out)
    \/ CanCall /\ \E c \in 1..MaxConns, ctx \in Contexts, out \in RealOutcomes :
                      Ping(c, ctx, out)
    \/ CanCall /\ \E c \in 1..MaxConns, q \in Queries, a \in ValueArgs, out \in RealOutcomes :
                      Exec(c, q, a, out)
    \/ CanCall /\ \E c \in 1..MaxConns, ctx \in Contexts, q \in Queries, a \in NamedArgs,
                      out \in RealOutcomes : ExecContext(c, ctx, q, a, out)
    \/ CanCall /\ \E c \in 1..MaxConns, q \in Queries, a \in ValueArgs, out \in RealOutcomes :
                      Query(c, q, a, out)
    \/ CanCall /\ \E c \in 1..MaxConns, ctx \in Contexts, q \in Queries, a \in NamedArgs,
                      out \in RealOutcomes : QueryContext(c, ctx, q, a, out)
    \/ CanCall /\ \E c \in 1..MaxConns, q \in Queries, id \in UIDs, out \in RealOutcomes :
                      Prepare(c, q, id, out)
    \/ CanCall /\ \E c \in 1..MaxConns, ctx \in Contexts, q \in Queries, id \in UIDs,
                      out \in RealOutcomes : PrepareContext(c, ctx, q, id, out)
    \/ CanCall /\ \E c \in 1..MaxConns, id \in UIDs, out \in RealOutcomes : Begin(c, id, out)
    \/ CanCall /\ \E c \in 1..MaxConns, ctx \in Contexts, opts \in TxOptions, id \in UIDs,
                      out \in RealOutcomes : BeginTx(c, ctx, opts, id, out)
    \/ CanCall /\ \E c \in 1..MaxConns, ctx \in Contexts, out \in RealOutcomes :
                      ResetSession(c, ctx, out)
    \/ CanCall /\ \E c \in 1..MaxConns, out \in RealOutcomes : ConnCheckNamedValue(c, out)
    \/ CanCall /\ \E c \in 1..MaxConns, out \in RealOutcomes : ConnClose(c, out)
    \/ CanCall /\ \E s \in 1..MaxStmts, out \in RealOutcomes : StmtClose(s, out)
    \/ CanCall /\ \E s \in 1..MaxStmts : StmtNumInput(s)
    \/ CanCall /\ \E s \in 1..MaxStmts, a \in ValueArgs, out \in RealOutcomes :
                      StmtExec(s, a, out)
    \/ CanCall /\ \E s \in 1..MaxStmts, a \in ValueArgs, out \in RealOutcomes :
                      StmtQuery(s, a, out)
    \/ CanCall /\ \E s \in 1..MaxStmts, ctx \in Contexts, a \in NamedArgs,
                      out \in RealOutcomes : StmtExecContext(s, ctx, a, out)
    \/ CanCall /\ \E s \in 1..MaxStmts, ctx \in Contexts, a \in NamedArgs,
                      out \in RealOutcomes : StmtQueryContext(s, ctx, a, out)
    \/ CanCall /\ \E s \in 1..MaxStmts, out \in RealOutcomes : StmtCheckNamedValue(s, out)
    \/ CanCall /\ \E t \in 1..MaxTxs, out \in RealOutcomes : Commit(t, out)
    \/ CanCall /\ \E t \in 1..MaxTxs, out \in RealOutcomes : Rollback(t, out)

Spec == Init /\ [][Next]_vars

----------------------------------------------------------------------------
(* Logger.Log alone, under every configuration *)

\* the errors Log is given
LoggedErrors == {"nil", ErrSkip, ErrReal, ErrCanceled, ErrIsolation, ErrReadOnly, ErrNamed}

InitLog ==
    /\ cfg \in {newDefaultLogger(opt) : opt \in Options(BaseLevels)}
    /\ real = [drvCaps |-> {}, connCaps |-> {}, stmtCaps |-> {}]
    /\ Fresh

NextLog ==
    \/ Resume
    \/ CanCall /\ \E ctx \in Contexts, level \in Levels, started \in {0, now},
                      err \in LoggedErrors : LogCall(ctx, level, started, err)

SpecLog == InitLog /\ [][NextLog]_vars

----------------------------------------------------------------------------
(* The capability probes, against every real driver *)

InitProbe ==
    /\ cfg = newDefaultLogger([logger |-> "default", baseLevel |-> LevelInfo,
                               withoutDuration |-> FALSE, warnErrSkip |-> FALSE])
    /\ real \in ProbedDrivers
    /\ Fresh

NextProbe ==
    \/ Resume
    \/ CanCall /\ NewDriverCall
    \/ \E out \in RealOutcomes : OpenConnector("dsn", out)
    \/ CanCall /\ \E id \in UIDs, out \in RealOutcomes : DriverOpen(id, out)
    \/ CanCall /\ \E c \in 1..MaxConns, q \in Queries, id \in UIDs, out \in RealOutcomes :
                      Prepare(c, q, id, out)

SpecProbe == InitProbe /\ [][NextProbe]_vars

----------------------------------------------------------------------------
(* The scenario: connect, prepare, exec, close the statement, close the connection *)

InitScenario ==
    /\ cfg \in {newDefaultLogger(opt) : opt \in Options(BaseLevels)}
    /\ real \in RealDrivers
    /\ Fresh

NextScenario ==
    \/ Resume
    \/ CanCall /\ \E ctx \in Contexts, id \in UIDs, out \in RealOutcomes :
                      Connect(ctx, id, out)
    \/ CanCall /\ \E c \in 1..MaxConns, q \in Queries, id \in UIDs, out \in RealOutcomes :
                      Prepare(c, q, id, out)
    \/ CanCall /\ \E s \in 1..MaxStmts, a \in ValueArgs, out \in RealOutcomes :
                      StmtExec(s, a, out)
    \/ CanCall /\ \E s \in 1..MaxStmts, out \in RealOutcomes : StmtClose(s, out)
    \/ CanCall /\ \E c \in 1..MaxConns, out \in RealOutcomes : ConnClose(c, out)

SpecScenario == InitScenario /\ [][NextScenario]_vars


----------------------------------------------------------------------------
(* NewUID alone, over the bytes the random source may give *)

defaultUIDLen == 8

\* defaultUIDCharlist, one symbol per element; the code indexes it from 0
defaultUIDCharlist ==
    << "0", "1", "2", "3", "4", "5", "6", "7", "8", "9", "a", "b", "c", "d", "e", "f",
       "g", "h", "i", "j", "k", "l", "m", "n", "o", "p", "q", "r", "s", "t", "u", "v",
       "w", "x", "y", "z", "A", "B", "C", "D", "E", "F", "G", "H", "I", "J", "K", "L",
       "M", "N", "O", "P", "Q", "R", "S", "T", "U", "V", "W", "X", "Y", "Z" >>

Bytes == 0..255

\* a & b on bytes
BitAnd(a, b) ==
    LET RECURSIVE and(_, _, _)
        and(x, y, n) ==
            IF n = 0 THEN 0
            ELSE (x % 2) * (y % 2) + 2 * and(x \div 2, y \div 2, n - 1)
    IN and(a, b, 8)

\* the index of the symbol taken for a random byte: uid[i] & byte(len(charlist) - 1)
UIDIndex(byte) == BitAnd(byte, (Len(defaultUIDCharlist) - 1) % 256)

\* NewUID on the bytes read: the string, symbol by symbol
NewUID(uid) == [i \in 1..defaultUIDLen |-> defaultUIDCharlist[UIDIndex(uid[i]) + 1]]

\* the bytes of the other positions while one position takes every value
FillBytes == {0, 255}

\* what rand.Read may leave in uid: every byte value at every position
RandomReads ==
    { [i \in 1..defaultUIDLen |-> IF i = pos THEN byte ELSE fill] :
          pos \in 1..defaultUIDLen, byte \in Bytes, fill \in FillBytes }

\* a call of NewUID; it panics when rand.Read fails
NewUIDCall(uid, readErr) ==
    /\ IF readErr
       THEN Done(Panicked("NewUID", 0, [uid |-> uid], <<>>, <<>>))
       ELSE Done(Ret("NewUID", 0, [uid |-> uid], <<>>, NewUID(uid), "nil", <<>>, 0))
    /\ UNCHANGED <<cfg, real, conns, stmts, txs, rstmts, rtxs>>

InitUID ==
    /\ cfg = newDefaultLogger([logger |-> "default", baseLevel |-> LevelInfo,
                               withoutDuration |-> FALSE, warnErrSkip |-> FALSE])
    /\ real = [drvCaps |-> {}, connCaps |-> {}, stmtCaps |-> {}]
    /\ Fresh

NextUID ==
    \/ Resume
    \/ CanCall /\ \E uid \in RandomReads, readErr \in BOOLEAN : NewUIDCall(uid, readErr)

SpecUID == InitUID /\ [][NextUID]_vars

----------------------------------------------------------------------------
(* Claims *)

Names(calls) == [i \in DOMAIN calls |-> calls[i].name]

OptionalOps == {"Conn.Ping", "Conn.Exec", "Conn.ExecContext", "Conn.Query", "Conn.QueryContext"}

\* the interface an optional operation probes, and the arguments it is called with
OptionalIface(op) ==
    CASE op = "Conn.Ping" -> "Pinger"
      [] op = "Conn.Exec" -> "Execer"
      [] op = "Conn.ExecContext" -> "ExecerContext"
      [] op = "Conn.Query" -> "Queryer"
      [] op = "Conn.QueryContext" -> "QueryerContext"

CalledWith(l) ==
    CASE l.op = "Conn.Ping" -> <<l.in.ctx>>
      [] l.op \in {"Conn.Exec", "Conn.Query"} -> <<l.in.query, l.in.args>>
      [] l.op \in {"Conn.ExecContext", "Conn.QueryContext"} ->
            <<l.in.ctx, l.in.query, l.in.args>>

\* C1: each of Ping, Exec, ExecContext, Query, QueryContext of the Conn proxy calls
\* the real method exactly once with the same arguments and returns its result and
\* error unchanged when the real connection implements it, and otherwise makes no
\* real call, does not panic and returns driver.ErrSkip (nil for Ping).
C1_OptionalForwarded ==
    last.op \in OptionalOps =>
        LET rc == RealCalls(last) IN
        /\ last.result = "returned"
        /\ IF OptionalIface(last.op) \in conns[last.obj].conn.caps
           THEN /\ Len(rc) = 1
                /\ rc[1].name = OptionalIface(last.op)
                /\ rc[1].args = CalledWith(last)
                /\ last.val = rc[1].out.val
                /\ last.err = rc[1].out.err
           ELSE /\ rc = <<>>
                /\ last.err = IF last.op = "Conn.Ping" THEN "nil" ELSE ErrSkip

LoggedOps ==
    { "Connector.Connect",
      "Conn.Ping", "Conn.Exec", "Conn.ExecContext", "Conn.Query", "Conn.QueryContext",
      "Conn.Prepare", "Conn.PrepareContext", "Conn.Begin", "Conn.BeginTx",
      "Conn.ResetSession", "Conn.Close",
      "Stmt.Close", "Stmt.Exec", "Stmt.ExecContext", "Stmt.Query", "Stmt.QueryContext",
      "Tx.Commit", "Tx.Rollback" }

\* C2: with a sink, every call of a logged operation emits exactly one event on every
\* exit path, and none when its error is driver.ErrSkip and ErrSkip is not surfaced;
\* whether durations are reported does not change the number.
C2_OneEventPerCall ==
    (cfg.sink /\ last.op \in LoggedOps) =>
        Len(Events(last)) = IF last.err = ErrSkip /\ ~cfg.WarnErrSkip THEN 0 ELSE 1

C2_Witness ==
    /\ cfg.sink
    /\ ~cfg.WithDuration
    /\ last.op = "Stmt.ExecContext"
    /\ last.err = ErrCanceled
    /\ RealCalls(last) = <<>>
    /\ Len(Events(last)) = 1

\* C3: Logger.Log with a sink: a nil error gives the level base offset + caller level;
\* an error other than driver.ErrSkip gives exactly the error level, with the error
\* attached; driver.ErrSkip gives exactly the warning level with the error attached
\* when it is surfaced, and no event at all when it is not.
C3_Severity ==
    (cfg.sink /\ last.op = "Logger.Log") =>
        LET ev == Events(last)
            err == last.in.err
        IN
        IF err = "nil"
        THEN /\ Len(ev) = 1
             /\ ev[1].level = cfg.BaseLevel + last.in.level
             /\ ~HasAttr(ev[1].attrs, "error")
        ELSE IF err # ErrSkip
        THEN /\ Len(ev) = 1
             /\ ev[1].level = LevelError
             /\ AttrVal(ev[1].attrs, "error") = err
        ELSE IF cfg.WarnErrSkip
        THEN /\ Len(ev) = 1
             /\ ev[1].level = LevelWarn
             /\ AttrVal(ev[1].attrs, "error") = err
        ELSE ev = <<>>

C3_Witness ==
    /\ cfg.sink
    /\ cfg.BaseLevel = LevelWarn
    /\ last.op = "Logger.Log"
    /\ last.in.err = ErrReal
    /\ last.in.level = LevelDebug
    /\ Len(Events(last)) = 1
    /\ Events(last)[1].level = LevelError

\* C4, as stated: a Conn proxy and a Stmt proxy satisfy the probe for an optional
\* interface if and only if the real object they wrap does.
C4_AdvertisesExactly ==
    /\ \A c \in DOMAIN conns : conns[c].ifaces = conns[c].conn.caps
    /\ \A t \in DOMAIN stmts : stmts[t].ifaces = real.stmtCaps

\* C4, amended: a Conn proxy and a Stmt proxy satisfy the probe for every optional
\* interface, whatever subset the real object satisfies: what they advertise
\* contains what the real object implements, and is the full set.
C4_AdvertisesAll ==
    /\ \A c \in DOMAIN conns :
          conns[c].conn.caps \subseteq conns[c].ifaces /\ conns[c].ifaces = ConnCaps
    /\ \A t \in DOMAIN stmts :
          real.stmtCaps \subseteq stmts[t].ifaces /\ stmts[t].ifaces = StmtCaps

C4_Witness ==
    /\ real.stmtCaps = {"StmtQueryContext"}
    /\ \E t \in DOMAIN stmts : stmts[t].ifaces = StmtCaps
    /\ \E c \in DOMAIN conns : conns[c].conn.caps = {} /\ conns[c].ifaces = ConnCaps

\* C5: the value of NewDriver satisfies the probe for driver.DriverContext if and only
\* if the real driver does, so OpenConnector is never called on a proxy whose real
\* driver cannot serve it.
C5_DriverContextPreserved ==
    /\ last.op = "NewDriver" =>
          ("DriverContext" \in last.val.ifaces <=> "DriverContext" \in real.drvCaps)
    /\ last.op = "Driver.OpenConnector" =>
          /\ "DriverContext" \in real.drvCaps
          /\ last.result = "returned"
          /\ Names(RealCalls(last)) = <<"DriverContext">>

C5_Witness ==
    /\ last.op = "NewDriver"
    /\ "DriverContext" \notin real.drvCaps
    /\ "DriverContext" \notin last.val.ifaces

\* C6: on a real connection without context-aware begin, BeginTx returns an error
\* and begins nothing when a non-default isolation level or read-only is asked for;
\* otherwise it calls the plain Begin exactly once, and when the context is canceled
\* after a successful Begin it rolls the new transaction back and returns the
\* context's error; it returns a Tx proxy only when the context is not canceled.
C6_BeginTxFallback ==
    (last.op = "Conn.BeginTx" /\ "ConnBeginTx" \notin conns[last.obj].conn.caps) =>
        LET rc == RealCalls(last)
            opts == last.in.opts
        IN
        IF opts.Isolation # 0 \/ opts.ReadOnly
        THEN /\ rc = <<>>
             /\ last.err \notin {"nil", ErrSkip}
             /\ last.made = 0
             /\ last.val # "proxy"
        ELSE /\ Len(rc) >= 1
             /\ rc[1] = RealCall("Conn.Begin", <<>>, rc[1].out)
             /\ \A i \in 2..Len(rc) : rc[i].name # "Conn.Begin"
             /\ IF rc[1].out.err # "nil"
                THEN Len(rc) = 1 /\ last.err = rc[1].out.err /\ last.made = 0
                ELSE IF CtxDone(last.in.ctx)
                THEN /\ Names(rc) = <<"Conn.Begin", "Tx.Rollback">>
                     /\ last.err = CtxErr(last.in.ctx)
                     /\ last.made = 0
                     /\ last.val # "proxy"
                     /\ rtxs[Len(rtxs)] = [state |-> "rolledback", owner |-> 0]
                ELSE /\ Len(rc) = 1
                     /\ last.result = "returned" =>
                           /\ last.val = "proxy"
                           /\ last.err = "nil"
                           /\ last.made \in DOMAIN txs
                           /\ rtxs[txs[last.made].tx] =
                                 [state |-> "open", owner |-> last.made]

C6_Witness ==
    /\ last.op = "Conn.BeginTx"
    /\ "ConnBeginTx" \notin conns[last.obj].conn.caps
    /\ last.in.ctx = "canceled"
    /\ Names(RealCalls(last)) = <<"Conn.Begin", "Tx.Rollback">>
    /\ last.err = ErrCanceled
    /\ txs = <<>>

\* C7: on a real connection without context-aware prepare, PrepareContext prepares
\* with the plain Prepare; when the context is canceled it closes the statement just
\* prepared, returns the context's error and no Stmt proxy; after a call that
\* returned, every real statement is closed or owned by a Stmt proxy.
C7_PrepareContextFallback ==
    /\ (last.op = "Conn.PrepareContext"
            /\ "ConnPrepareContext" \notin conns[last.obj].conn.caps) =>
          LET rc == RealCalls(last) IN
          /\ Len(rc) >= 1
          /\ rc[1] = RealCall("Conn.Prepare", <<last.in.query>>, rc[1].out)
          /\ (rc[1].out.err = "nil" /\ CtxDone(last.in.ctx)) =>
                /\ Names(rc) = <<"Conn.Prepare", "Stmt.Close">>
                /\ last.result = "returned"
                /\ last.err = CtxErr(last.in.ctx)
                /\ last.made = 0
                /\ last.val # "proxy"
                /\ rstmts[Len(rstmts)] = [closed |-> TRUE, owner |-> 0]
                /\ \A t \in DOMAIN stmts : stmts[t].stmt # Len(rstmts)
    /\ pc # "panicked" =>
          \A r \in DOMAIN rstmts :
              \/ rstmts[r].closed
              \/ rstmts[r].owner \in DOMAIN stmts /\ stmts[rstmts[r].owner].stmt = r

C7_Witness ==
    /\ last.op = "Conn.PrepareContext"
    /\ "ConnPrepareContext" \notin conns[last.obj].conn.caps
    /\ last.in.ctx = "canceled"
    /\ Names(RealCalls(last)) = <<"Conn.Prepare", "Stmt.Close">>
    /\ last.err = ErrCanceled
    /\ rstmts = <<[closed |-> TRUE, owner |-> 0]>>

TimedOps == LoggedOps \ {"Connector.Connect", "Tx.Commit", "Tx.Rollback"}

\* C9: with durations reported, every event of a Conn or Stmt operation carries a
\* duration attribute, and it is the time from the entry of that call to its return.
C9_DurationFromEntry ==
    (cfg.sink /\ cfg.WithDuration /\ last.op \in TimedOps) =>
        \A i \in DOMAIN Events(last) :
            /\ HasAttr(Events(last)[i].attrs, "duration")
            /\ AttrVal(Events(last)[i].attrs, "duration") = last.returned - last.entered

StmtOps == {"Stmt.Close", "Stmt.Exec", "Stmt.ExecContext", "Stmt.Query", "Stmt.QueryContext"}

TxOps == {"Tx.Commit", "Tx.Rollback"}

\* s extends p by exactly the one attribute named key
Extends(s, p, key) ==
    /\ Len(s) = Len(p) + 1
    /\ SubSeq(s, 1, Len(p)) = p
    /\ s[Len(s)][1] = key

Symbols == {defaultUIDCharlist[k] : k \in DOMAIN defaultUIDCharlist}

\* the characters NewUID can put at each position
SymbolsAt == [i \in 1..defaultUIDLen |-> {NewUID(uid)[i] : uid \in RandomReads}]

\* the indices the mask can compute
UIDIndices == {UIDIndex(byte) : byte \in Bytes}

\* C11: NewUID returns a string of exactly 8 characters; for every byte value 0..255
\* the index the mask computes is within the 62-symbol alphabet; and the characters
\* that can appear at each position are exactly the 62 symbols of the alphabet.
C11_FullAlphabet ==
    (last.op = "NewUID" /\ last.result = "returned") =>
        /\ Len(last.val) = 8
        /\ Cardinality(Symbols) = 62
        /\ UIDIndices \subseteq 0..61
        /\ \A i \in 1..8 : last.val[i] \in Symbols
        /\ \A i \in 1..8 : SymbolsAt[i] = Symbols

\* C12: without a sink every proxy operation completes without panicking, emits no
\* event and returns what the real driver returned, the operations that derive a
\* child scoped logger on success (Connector.Connect, Driver.Open, Conn.Prepare and
\* PrepareContext, Conn.Begin and BeginTx) included.
C12_NilSinkNoPanic ==
    (~cfg.sink /\ last.op # "none") =>
        /\ last.result = "returned"
        /\ pc # "panicked"
        /\ Events(last) = <<>>
        /\ last.op \in {"Connector.Connect", "Driver.Open"} =>
              /\ Len(RealCalls(last)) = 1
              /\ last.err = RealCalls(last)[1].out.err
              /\ last.err = "nil" => last.val = "proxy" /\ last.made \in DOMAIN conns

\* the context-aware interface of a Stmt operation and the plain call it falls back on
StmtContextIface(op) ==
    IF op = "Stmt.ExecContext" THEN "StmtExecContext" ELSE "StmtQueryContext"

StmtContextPlain(op) == IF op = "Stmt.ExecContext" THEN "Stmt.Exec" ELSE "Stmt.Query"

\* C13: Stmt.ExecContext and Stmt.QueryContext on a real statement without the
\* context-aware variant: the real Exec/Query is not called, and the named-parameter
\* error is returned, when an argument is named, also when the context is canceled
\* too; it is not called, and the context's error is returned, when the context is
\* canceled; otherwise it is called exactly once with the plain values and its
\* result and error are returned unchanged.
C13_StmtContextFallback ==
    (last.op \in {"Stmt.ExecContext", "Stmt.QueryContext"}
        /\ StmtContextIface(last.op) \notin real.stmtCaps) =>
        LET rc == RealCalls(last)
            args == last.in.args
        IN
        /\ last.result = "returned"
        /\ IF \E n \in DOMAIN args : args[n].Name # ""
           THEN rc = <<>> /\ last.err = ErrNamed /\ last.val = "none"
           ELSE IF last.in.ctx = "canceled"
           THEN rc = <<>> /\ last.err = ErrCanceled /\ last.val = "none"
           ELSE /\ Len(rc) = 1
                /\ rc[1].name = StmtContextPlain(last.op)
                /\ rc[1].args = <<[n \in DOMAIN args |-> args[n].Value]>>
                /\ last.val = rc[1].out.val
                /\ last.err = rc[1].out.err

C13_Witness ==
    /\ last.op = "Stmt.QueryContext"
    /\ "StmtQueryContext" \notin real.stmtCaps
    /\ \E n \in DOMAIN last.in.args : last.in.args[n].Name # ""
    /\ last.in.ctx = "canceled"
    /\ RealCalls(last) = <<>>
    /\ last.err = ErrNamed

====
